---- MODULE Spec2Model ----
(***************************************************************************)
(* PuzzleManager of CH3SS (browser build): the chunk cache with its        *)
(* retrying fetcher and prefetcher, the streak-driven progression and the  *)
(* timed scoring session.                                                  *)
(*                                                                         *)
(* Times are integer milliseconds.  remainingTime is kept in milliseconds  *)
(* (the code keeps seconds as a float: remainingTime_code =                *)
(* remainingTime / 1000).  A JavaScript string is a sequence of symbols,   *)
(* the blank " " being the separator symbol.                               *)
(***************************************************************************)
EXTENDS Integers, Sequences, FiniteSets, TLC

(***************************************************************************)
(* Bounds of the model                                                     *)
(***************************************************************************)
\* highest chunk index the content store holds for a tier (above it: 404),
\* in the runs that follow the cache and in those that follow the session
CacheLastChunk == 5
SessionLastChunk == 0
\* asynchronous calls that may be pending at the same time
CacheTasks == 2
SessionTasks == 2
\* get, prefetch and nextPuzzle calls made in one run (init is made once)
MaxCalls == 1
ProgressCalls == 2
PrefetchCalls == 2
\* pending calls and calls made in the runs where a get and a prefetch overlap
RaceTasks == 3
RaceCalls == 1
\* loads called in the runs that follow the retrying fetcher
FetchCalls == 2
\* the content store and the prefetch calls in the runs that follow the markers
MarksLastChunk == 5
MarksCalls == 1
\* the content store, the highest index called and the calls in the runs that
\* follow the prefetch chain
ChainLastChunk == 2
ChainLastKey == 1
ChainCalls == 2
\* nextPuzzle calls, streak and score in the runs that follow setPuzzleMode
ModeCalls == 2
ModeMaxStreak == 13
ModeMaxScore == 2000
\* nextPuzzle calls and score in the runs with an unavailable chunk
UnavailableCalls == 2
UnavailableMaxScore == 1000
\* the running score up to which puzzles are completed
MaxScore == 200
\* the streak up to which the progression is followed
MaxProgressStreak == 23
\* value of Date.now() when the manager is constructed
StartNow == 100000
\* granularity of the clock and the number of steps it is followed for
TickMs == 40000
MaxClockSteps == 2
\* the streaks and solve times the score is computed for
ScoreMaxStreak == 30
ScoreTickMs == 2500
ScoreClockSteps == 8
\* the longest theme list of the puzzles goal texts are made for
MaxThemes == 2

(***************************************************************************)
(* Program constants                                                       *)
(***************************************************************************)
CacheLimit == 5
Retries == 3
InitialTime == 60
basePoints == 100

MODES == {"tutorial", "core-loop", "spice", "boss"}

(***************************************************************************)
(* JavaScript values                                                       *)
(***************************************************************************)
null == [t |-> "null"]
undefined == [t |-> "undefined"]
Str(s) == [t |-> "string", v |-> s]
Arr(items) == [t |-> "array", items |-> items]

\* a timestamp field holding null
NoTime == -1

Max(a, b) == IF a >= b THEN a ELSE b
Min(a, b) == IF a <= b THEN a ELSE b

\* null coerced to a number by the subtraction  now - this.lastUpdateTime
ToNumber(x) == IF x = NoTime THEN 0 ELSE x

\* a test that takes every timestamp for unset (faulty variant of Falsy)
FalsyAlways(x) == TRUE

\* !x of a timestamp field
Falsy(x) == x = NoTime \/ x = 0

\* !x of a value
Truthy(v) == v.t \notin {"null", "undefined"}

\* String.prototype.split(' ')
RECURSIVE SplitFrom(_, _, _)
SplitFrom(s, cur, acc) ==
    IF s = <<>> THEN Append(acc, cur)
    ELSE IF Head(s) = " " THEN SplitFrom(Tail(s), <<>>, Append(acc, cur))
    ELSE SplitFrom(Tail(s), Append(cur, Head(s)), acc)

Split(s) == SplitFrom(s, <<>>, <<>>)

\* array[i], zero-based; undefined outside the array
At(seq, i) == IF i \in 0 .. (Len(seq) - 1) THEN Str(seq[i + 1]) ELSE undefined

\* parseInt of a string of decimal digits
DigitValue(d) ==
    CASE d = "0" -> 0 [] d = "1" -> 1 [] d = "2" -> 2 [] d = "3" -> 3 [] d = "4" -> 4
      [] d = "5" -> 5 [] d = "6" -> 6 [] d = "7" -> 7 [] d = "8" -> 8 [] d = "9" -> 9

RECURSIVE ParseIntFrom(_, _)
ParseIntFrom(s, acc) ==
    IF s = <<>> THEN acc ELSE ParseIntFrom(Tail(s), 10 * acc + DigitValue(Head(s)))

ParseInt(s) == ParseIntFrom(s, 0)

\* String.prototype.includes: sub occurs in s
Includes(s, sub) ==
    \E k \in 1 .. (Len(s) - Len(sub) + 1) : SubSeq(s, k, k + Len(sub) - 1) = sub

\* Array.prototype.includes
ArrIncludes(arr, x) == \E n \in 1 .. Len(arr) : arr[n] = x

\* move === solutionMoves[moveIndex]
StrictEq(move, elem) == elem.t = "string" /\ elem.v = move

(***************************************************************************)
(* Puzzle records and chunks served by the content store                   *)
(***************************************************************************)
PuzzleRecord(fen, moves, rating, themes) ==
    [t |-> "puzzle", FEN |-> fen, Moves |-> moves, Rating |-> rating, Themes |-> themes]

PuzzleA ==
    PuzzleRecord(<<"board", " ", "w", " ", "KQkq">>, <<"e2e4", " ", "e7e5">>,
                 <<"1", "5", "0", "0">>, <<"mateIn1", " ", "middlegame">>)

PuzzleB ==
    PuzzleRecord(<<"board", " ", "b", " ", "KQkq">>, <<"e7e5">>,
                 <<"1", "1", "0", "0">>, <<"fork", " ", "attack">>)

ChunkFull == Arr(<<PuzzleA, PuzzleB>>)
ChunkEmpty == Arr(<<>>)

CacheKey(mode, chunkIndex) == <<mode, chunkIndex>>

\* what a 200 response for the chunk can decode to
ServerChunks(key) ==
    IF key = CacheKey("tutorial", 0) THEN {ChunkFull, ChunkEmpty} ELSE {ChunkFull}

(***************************************************************************)
(* loadedChunks: a JavaScript Map, kept as the sequence of its entries in  *)
(* insertion order (the order Map.keys() iterates in)                      *)
(***************************************************************************)
CacheKeys(c) == {c[n].key : n \in 1 .. Len(c)}

\* Map.has
CacheHas(c, k) == k \in CacheKeys(c)

\* Map.get of a resident key
CacheGet(c, k) == c[CHOOSE n \in 1 .. Len(c) : c[n].key = k].val

\* a set that leaves the value of a resident key as it is (faulty variant of
\* CacheSet)
CacheSetKeepFirst(c, k, v) ==
    IF k \in {c[n].key : n \in 1 .. Len(c)} THEN c ELSE Append(c, [key |-> k, val |-> v])

\* Map.set: a resident key keeps its position, a new key goes last
CacheSet(c, k, v) ==
    IF CacheHas(c, k)
    THEN [n \in 1 .. Len(c) |-> IF c[n].key = k THEN [key |-> k, val |-> v] ELSE c[n]]
    ELSE Append(c, [key |-> k, val |-> v])

\* Map.keys().next().value
FirstKey(c) == c[1].key

\* Map.delete
CacheDelete(c, k) == SelectSeq(c, LAMBDA e : e.key # k)

\* faulty variants of CacheStore: no eviction; eviction of the newest entry
CacheStoreNoEvict(c, k, v) == CacheSet(c, k, v)

CacheStoreEvictNewest(c, k, v) ==
    LET c1 == CacheSet(c, k, v)
    IN  IF Len(c1) > CacheLimit THEN CacheDelete(c1, c1[Len(c1)].key) ELSE c1

\* loadPuzzleChunk: cache the chunk, then keep only the last 5 chunks
CacheStore(c, k, v) ==
    LET c1 == CacheSet(c, k, v)
    IN  IF Len(c1) > CacheLimit THEN CacheDelete(c1, FirstKey(c1)) ELSE c1

(***************************************************************************)
(* Progression, scoring, streak                                            *)
(***************************************************************************)
\* the browser build's target with the index clamped to the chunks listed, as
\* the node build does (faulty variant of TargetChunk)
TargetChunkClamped(streak) ==
    IF streak < 3 THEN CacheKey("tutorial", 0)
    ELSE IF streak < 8 THEN CacheKey("core-loop", Min((streak - 3) \div 2, 1))
    ELSE LET puzzleNumber == streak - 8
         IN  IF puzzleNumber % 5 = 4
             THEN CacheKey("spice", Min(puzzleNumber \div 10, 1))
             ELSE CacheKey("core-loop", Min(puzzleNumber \div 5, 1))

\* getNextPuzzle: the mode and chunk index chosen from the streak
TargetChunk(streak) ==
    IF streak < 3 THEN CacheKey("tutorial", 0)
    ELSE IF streak < 8 THEN CacheKey("core-loop", (streak - 3) \div 2)
    ELSE LET puzzleNumber == streak - 8
         IN  IF puzzleNumber % 5 = 4
             THEN CacheKey("spice", puzzleNumber \div 10)
             ELSE CacheKey("core-loop", puzzleNumber \div 5)

\* Math.round of the rational n / d  (d > 0): floor(n/d + 1/2)
RoundDiv(n, d) == (2 * n + d) \div (2 * d)

\* the score computed with the streak already incremented (faulty variant)
CalculatePuzzleScoreAfterStreak(streak, timeToSolve) ==
    LET mult10 == Min(30, 10 + (streak + 1))
        bonus15000 == Max(15000, 30000 - timeToSolve)
    IN  RoundDiv(basePoints * mult10 * bonus15000, 10 * 15000)

\* the score without the cap of the streak multiplier (faulty variant)
CalculatePuzzleScoreUncapped(streak, timeToSolve) ==
    LET mult10 == 10 + streak
        bonus15000 == Max(15000, 30000 - timeToSolve)
    IN  RoundDiv(basePoints * mult10 * bonus15000, 10 * 15000)

\* calculatePuzzleScore; timeToSolve in ms.
\* streakMultiplier = mult10 / 10, speedBonus = bonus15000 / 15000
CalculatePuzzleScore(streak, timeToSolve) ==
    LET mult10 == Min(30, 10 + streak)
        bonus15000 == Max(15000, 30000 - timeToSolve)
    IN  RoundDiv(basePoints * mult10 * bonus15000, 10 * 15000)

\* a failure that keeps the streak (faulty variant of UpdateStreak)
UpdateStreakKeepOnFailure(streak, success) == IF success THEN streak + 1 ELSE streak

\* updateStreak
UpdateStreak(streak, success) == IF success THEN streak + 1 ELSE 0

\* a correct move always completes the puzzle (faulty variant of IsLastMove)
IsLastMoveAlways(moveIndex, solutionMoves) == TRUE

\* moveIndex === solutionMoves.length - 1
IsLastMove(moveIndex, solutionMoves) == moveIndex = Len(solutionMoves) - 1

\* now - this.lastUpdateTime, in ms
Elapsed(t, lastUpdate) == t - ToNumber(lastUpdate)

(***************************************************************************)
(* State                                                                   *)
(***************************************************************************)
VARIABLES
    currentPuzzle,     \* null, undefined or a puzzle record
    puzzleMode,
    currentStreak,
    loadedChunks,      \* the chunk cache
    currentScore,
    solveStartTime,    \* NoTime or ms
    remainingTime,     \* ms
    lastUpdateTime,    \* NoTime or ms
    zstdInit,          \* "null", "pending", "resolved" or "rejected"
    prefetchedChunks,  \* the prefetch markers
    now,               \* Date.now()
    lastChunk,         \* the content store: highest chunk index of each tier
    tasks,             \* the pending asynchronous calls
    result,            \* what the last finished call returned
    calls,             \* get, prefetch and nextPuzzle calls made so far
    insertLog          \* history: the keys newly entered into the cache, in order

session == <<currentPuzzle, puzzleMode, currentStreak, currentScore,
             solveStartTime, remainingTime, lastUpdateTime>>

cache == <<loadedChunks, prefetchedChunks, insertLog>>

env == <<now, lastChunk>>

vars == <<session, cache, env, zstdInit, tasks, result, calls>>

Slots == DOMAIN tasks

NoKey == CacheKey("none", 0)
MetadataKey == CacheKey("metadata", 0)

\* the error a catch block holds: its kind and the attempt that raised it
NoError == <<"none", 0>>
Error(kind, attempt) == <<kind, attempt>>

FreeTask ==
    [kind |-> "none", key |-> NoKey, pc |-> "free", i |-> 0, timer |-> "none",
     val |-> null, failed |-> FALSE, hit |-> FALSE, wait |-> 0, err |-> NoError]

FreeSlots(ts) == {t \in DOMAIN ts : ts[t].pc = "free"}
FirstFree(ts) == CHOOSE t \in FreeSlots(ts) : \A u \in FreeSlots(ts) : t <= u

\* no asynchronous call is pending
Idle == \A t \in Slots : tasks[t].pc = "free"

\* the content store answers 404 for chunks it does not hold
ChunkExists(key) == key[1] \in MODES /\ key[2] <= lastChunk

\* constructor, with a content store of the given size
Constructed(chunks, slots) ==
    /\ currentPuzzle = null
    /\ puzzleMode = "tutorial"
    /\ currentStreak = 0
    /\ loadedChunks = <<>>
    /\ currentScore = 0
    /\ solveStartTime = NoTime
    /\ remainingTime = InitialTime * 1000
    /\ lastUpdateTime = NoTime
    /\ zstdInit = "null"
    /\ prefetchedChunks = {}
    /\ now = StartNow
    /\ lastChunk = chunks
    /\ tasks = [t \in 1 .. slots |-> FreeTask]
    /\ result = [op |-> "new"]
    /\ calls = 0
    /\ insertLog = <<>>

(***************************************************************************)
(* fetchWithRetry                                                          *)
(***************************************************************************)
\* fetchWithRetry up to its first await: the controller and its timeout are
\* created and attempt 0 is sent
StartFetch(kind, key) ==
    [kind |-> kind, key |-> key, pc |-> "fetch", i |-> 0, timer |-> "armed",
     val |-> null, failed |-> FALSE, hit |-> FALSE, wait |-> 0, err |-> NoError]

\* the catch block of loadPuzzleChunk (and of init): log, return null (false)
LoadFailure(task) ==
    [task EXCEPT !.pc = "ret", !.val = null, !.failed = TRUE, !.timer = "none", !.i = 0,
                 !.wait = 0]

\* a backoff that always waits 1000 ms (faulty variant of BackoffMs)
BackoffMsFlat(i) == 1000

\* 1000 * Math.pow(2, i)
BackoffMs(i) == 1000 * 2 ^ i

\* the catch block of the retry loop, after attempt task.i failed with error
\* kind: rethrow after the last attempt, else wait before the next one
FetchCatch(task, kind) ==
    IF task.i = Retries - 1
    THEN LoadFailure([task EXCEPT !.err = Error(kind, task.i)])
    ELSE [task EXCEPT !.pc = "backoff", !.wait = BackoffMs(task.i),
                      !.err = Error(kind, task.i)]

\* a response with response.ok: the timeout is cleared, the response returned
FetchOk(t) ==
    /\ tasks[t].pc = "fetch" /\ tasks[t].timer # "fired"
    /\ tasks[t].key = MetadataKey \/ ChunkExists(tasks[t].key)
    /\ tasks' = [tasks EXCEPT ![t] = [@ EXCEPT !.pc = "decode", !.timer = "none", !.i = 0]]
    /\ UNCHANGED <<session, cache, env, zstdInit, result, calls>>

\* a response with a non-success status: the timeout is cleared, then the throw
FetchHttpError(t) ==
    /\ tasks[t].pc = "fetch" /\ tasks[t].timer # "fired"
    /\ tasks' = [tasks EXCEPT ![t] = FetchCatch([@ EXCEPT !.timer = "cleared"], "http")]
    /\ UNCHANGED <<session, cache, env, zstdInit, result, calls>>

\* fetch rejects (transport failure): the timeout stays as it is
FetchNetworkError(t) ==
    /\ tasks[t].pc = "fetch" /\ tasks[t].timer # "fired"
    /\ tasks' = [tasks EXCEPT ![t] = FetchCatch(@, "network")]
    /\ UNCHANGED <<session, cache, env, zstdInit, result, calls>>

\* the server never answers the attempt in flight
ServerSilent(t) ==
    /\ tasks[t].pc = "fetch" /\ tasks[t].timer # "fired"
    /\ tasks' = [tasks EXCEPT ![t] = [@ EXCEPT !.pc = "silent"]]
    /\ UNCHANGED <<session, cache, env, zstdInit, result, calls>>

\* the timeout fires: controller.abort()
TimerFire(t) ==
    /\ tasks[t].pc \in {"fetch", "silent", "backoff"} /\ tasks[t].timer = "armed"
    /\ tasks' = [tasks EXCEPT ![t] = [@ EXCEPT !.timer = "fired"]]
    /\ UNCHANGED <<session, cache, env, zstdInit, result, calls>>

\* fetch rejects because the signal is aborted
FetchAborted(t) ==
    /\ tasks[t].pc \in {"fetch", "silent"} /\ tasks[t].timer = "fired"
    /\ tasks' = [tasks EXCEPT ![t] = FetchCatch([@ EXCEPT !.pc = "fetch"], "abort")]
    /\ UNCHANGED <<session, cache, env, zstdInit, result, calls>>

\* the backoff wait is over: next attempt
BackoffDone(t) ==
    /\ tasks[t].pc = "backoff"
    /\ tasks' = [tasks EXCEPT ![t] = [@ EXCEPT !.pc = "fetch", !.i = @ + 1, !.wait = 0,
                                           !.err = NoError]]
    /\ UNCHANGED <<session, cache, env, zstdInit, result, calls>>

(***************************************************************************)
(* loadPuzzleChunk and prefetchChunk                                       *)
(***************************************************************************)
LoadKinds == {"get", "prefetch", "next"}

\* loadPuzzleChunk up to its first await: a hit returns the cached chunk, a
\* miss sends the first fetch
StartLoad(kind, key, c) ==
    IF CacheHas(c, key)
    THEN [kind |-> kind, key |-> key, pc |-> "ret", i |-> 0, timer |-> "none",
          val |-> CacheGet(c, key), failed |-> FALSE, hit |-> TRUE, wait |-> 0,
          err |-> NoError]
    ELSE StartFetch(kind, key)

\* prefetchChunk up to its first await: nothing when the key is marked, else
\* a load whose completion the marker waits for
PrefetchCall(ts, c, marks, key) ==
    IF key \in marks THEN ts
    ELSE [ts EXCEPT ![FirstFree(ts)] = StartLoad("prefetch", key, c)]

\* a slot is there for the load prefetchChunk may start
CanPrefetchCall(ts, marks, key) == key \in marks \/ FreeSlots(ts) # {}

NextKey(key) == CacheKey(key[1], key[2] + 1)

\* history: a key that was not resident enters the cache
Logged(log, c, key) == IF CacheHas(c, key) THEN log ELSE Append(log, key)

\* a fill that does not call prefetchChunk for the next index (faulty variant
\* of DecodeOk)
DecodeOkNoPrefetch(t, chunk) ==
    /\ tasks[t].pc = "decode" /\ tasks[t].kind \in LoadKinds
    /\ zstdInit = "resolved"
    /\ chunk \in ServerChunks(tasks[t].key)
    /\ loadedChunks' = CacheStore(loadedChunks, tasks[t].key, chunk)
    /\ insertLog' = Logged(insertLog, loadedChunks, tasks[t].key)
    /\ tasks' = [tasks EXCEPT ![t] = [@ EXCEPT !.pc = "ret", !.val = chunk]]
    /\ UNCHANGED <<session, prefetchedChunks, env, zstdInit, result, calls>>

\* arrayBuffer, decompress and JSON.parse succeeded: cache the chunk, evict,
\* call prefetchChunk for the next index, return the chunk
DecodeOk(t, chunk) ==
    /\ tasks[t].pc = "decode" /\ tasks[t].kind \in LoadKinds
    /\ zstdInit = "resolved"
    /\ chunk \in ServerChunks(tasks[t].key)
    /\ CanPrefetchCall(tasks, prefetchedChunks, NextKey(tasks[t].key))
    /\ loadedChunks' = CacheStore(loadedChunks, tasks[t].key, chunk)
    /\ insertLog' = Logged(insertLog, loadedChunks, tasks[t].key)
    /\ tasks' = PrefetchCall([tasks EXCEPT ![t] = [@ EXCEPT !.pc = "ret", !.val = chunk]],
                             loadedChunks', prefetchedChunks, NextKey(tasks[t].key))
    /\ UNCHANGED <<session, prefetchedChunks, env, zstdInit, result, calls>>

\* a failing decode that leaves a null entry behind (faulty variant)
DecodeFailCaching(t) ==
    /\ tasks[t].pc = "decode" /\ tasks[t].kind \in LoadKinds
    /\ zstdInit # "pending"
    /\ loadedChunks' = CacheStore(loadedChunks, tasks[t].key, null)
    /\ tasks' = [tasks EXCEPT ![t] = LoadFailure(@)]
    /\ UNCHANGED <<session, prefetchedChunks, insertLog, env, zstdInit, result, calls>>

\* arrayBuffer, decompress (zstd missing, or corrupt bytes) or JSON.parse
\* throws: the catch block returns null
DecodeFail(t) ==
    /\ tasks[t].pc = "decode" /\ tasks[t].kind \in LoadKinds
    /\ zstdInit # "pending"
    /\ tasks' = [tasks EXCEPT ![t] = LoadFailure(@)]
    /\ UNCHANGED <<session, cache, env, zstdInit, result, calls>>

\* an external call of loadPuzzleChunk (the cache's get)
CallGet(key) ==
    /\ FreeSlots(tasks) # {}
    /\ tasks' = [tasks EXCEPT ![FirstFree(tasks)] = StartLoad("get", key, loadedChunks)]
    /\ calls' = calls + 1
    /\ UNCHANGED <<session, cache, env, zstdInit, result>>

\* the get's promise resolves
ReturnGet(t) ==
    /\ tasks[t].pc = "ret" /\ tasks[t].kind = "get"
    /\ result' = [op |-> "get", key |-> tasks[t].key, val |-> tasks[t].val,
                  failed |-> tasks[t].failed, hit |-> tasks[t].hit]
    /\ tasks' = [tasks EXCEPT ![t] = FreeTask]
    /\ UNCHANGED <<session, cache, env, zstdInit, calls>>

\* an external call of prefetchChunk
CallPrefetch(key) ==
    /\ CanPrefetchCall(tasks, prefetchedChunks, key)
    /\ tasks' = PrefetchCall(tasks, loadedChunks, prefetchedChunks, key)
    /\ calls' = calls + 1
    /\ UNCHANGED <<session, cache, env, zstdInit, result>>

\* prefetchChunk marking the key only when the load returned a chunk (faulty
\* variant of ReturnPrefetch)
ReturnPrefetchOnSuccess(t) ==
    /\ tasks[t].pc = "ret" /\ tasks[t].kind = "prefetch"
    /\ prefetchedChunks' = IF tasks[t].failed THEN prefetchedChunks
                            ELSE prefetchedChunks \cup {tasks[t].key}
    /\ tasks' = [tasks EXCEPT ![t] = FreeTask]
    /\ UNCHANGED <<session, loadedChunks, insertLog, env, zstdInit, result, calls>>

\* prefetchChunk after its await: loadPuzzleChunk never throws, so the key is
\* marked whatever it returned
ReturnPrefetch(t) ==
    /\ tasks[t].pc = "ret" /\ tasks[t].kind = "prefetch"
    /\ prefetchedChunks' = prefetchedChunks \cup {tasks[t].key}
    /\ tasks' = [tasks EXCEPT ![t] = FreeTask]
    /\ UNCHANGED <<session, loadedChunks, insertLog, env, zstdInit, result, calls>>

(***************************************************************************)
(* init                                                                    *)
(***************************************************************************)
\* init up to its first await; zstdPresent: window.ZstdCodec is there
CallInit(zstdPresent) ==
    /\ FreeSlots(tasks) # {}
    /\ zstdInit = "null"
    /\ zstdInit' = IF zstdPresent THEN "pending" ELSE "rejected"
    /\ tasks' = [tasks EXCEPT ![FirstFree(tasks)] =
                    [FreeTask EXCEPT !.kind = "init", !.key = MetadataKey, !.pc = "zstd"]]
    /\ UNCHANGED <<session, cache, env, result, calls>>

\* the codec calls back
ZstdReady ==
    /\ zstdInit = "pending"
    /\ zstdInit' = "resolved"
    /\ UNCHANGED <<session, cache, env, tasks, result, calls>>

\* await this.zstdInit in init: then the metadata fetch, or the catch block
InitAwaited(t) ==
    /\ tasks[t].pc = "zstd" /\ zstdInit \in {"resolved", "rejected"}
    /\ tasks' = [tasks EXCEPT ![t] =
                    IF zstdInit = "resolved" THEN StartFetch("init", MetadataKey)
                    ELSE LoadFailure(@)]
    /\ UNCHANGED <<session, cache, env, zstdInit, result, calls>>

\* response.json() succeeded: prefetch the first tutorial chunk, return true
InitJsonOk(t) ==
    /\ tasks[t].pc = "decode" /\ tasks[t].kind = "init"
    /\ CanPrefetchCall(tasks, prefetchedChunks, CacheKey("tutorial", 0))
    /\ tasks' = PrefetchCall([tasks EXCEPT ![t] = [@ EXCEPT !.pc = "ret"]],
                             loadedChunks, prefetchedChunks, CacheKey("tutorial", 0))
    /\ UNCHANGED <<session, cache, env, zstdInit, result, calls>>

\* response.json() throws
InitJsonFail(t) ==
    /\ tasks[t].pc = "decode" /\ tasks[t].kind = "init"
    /\ tasks' = [tasks EXCEPT ![t] = LoadFailure(@)]
    /\ UNCHANGED <<session, cache, env, zstdInit, result, calls>>

\* init's promise resolves with true or false
ReturnInit(t) ==
    /\ tasks[t].pc = "ret" /\ tasks[t].kind = "init"
    /\ result' = [op |-> "init", ret |-> ~tasks[t].failed]
    /\ tasks' = [tasks EXCEPT ![t] = FreeTask]
    /\ UNCHANGED <<session, cache, env, zstdInit, calls>>

(***************************************************************************)
(* getGoalText                                                             *)
(***************************************************************************)
tacticalMotifs == <<"fork", "pin", "skewer", "doubleCheck">>

\* a theme word of the split theme list, as the one-symbol string it is
Word(tag) == <<tag>>

\* themes.find(t => tacticalMotifs.includes(t)): the first theme, in the order
\* of the theme list, that is a motif; undefined when there is none
FindMotif(themes) ==
    LET hits == {n \in 1 .. Len(themes) :
                    \E m \in 1 .. Len(tacticalMotifs) : themes[n] = Word(tacticalMotifs[m])}
    IN  IF hits = {} THEN undefined
        ELSE Str(themes[CHOOSE n \in hits : \A k \in hits : n <= k])

\* the text `${side} to move – ${goal}`, kept as its parts
GoalText(side, goal) == [side |-> side, goal |-> goal]

\* getGoalText
GetGoalText(puzzle) ==
    LET side == IF Includes(puzzle.FEN, <<" ", "w", " ">>) THEN "White" ELSE "Black"
        themes == Split(puzzle.Themes)
    IN  IF ArrIncludes(themes, Word("mateIn1")) THEN GoalText(side, <<"Mate in", "1">>)
        ELSE IF ArrIncludes(themes, Word("mateIn2")) THEN GoalText(side, <<"Mate in", "2">>)
        ELSE IF ArrIncludes(themes, Word("mateIn3")) THEN GoalText(side, <<"Mate in", "3">>)
        ELSE LET motif == FindMotif(themes)
             IN  IF Truthy(motif) THEN GoalText(side, <<"Find the">> \o motif.v)
                 ELSE GoalText(side, <<"Find the", "best tactic">>)

\* a call of getGoalText for the current puzzle
CallGetGoalText ==
    /\ Truthy(currentPuzzle)
    /\ result' = [op |-> "getGoalText", text |-> GetGoalText(currentPuzzle)]
    /\ UNCHANGED <<session, cache, env, zstdInit, tasks, calls>>

(***************************************************************************)
(* getNextPuzzle                                                           *)
(***************************************************************************)
\* getNextPuzzle up to its await: the mode follows the streak, the chunk is
\* asked from the cache
CallNextPuzzle ==
    /\ FreeSlots(tasks) # {}
    /\ puzzleMode' = TargetChunk(currentStreak)[1]
    /\ tasks' = [tasks EXCEPT ![FirstFree(tasks)] =
                    StartLoad("next", TargetChunk(currentStreak), loadedChunks)]
    /\ calls' = calls + 1
    /\ UNCHANGED <<currentPuzzle, currentStreak, currentScore, solveStartTime,
                   remainingTime, lastUpdateTime, cache, env, zstdInit, result>>

\* the object getNextPuzzle returns for a puzzle
PuzzleView(p) ==
    [op |-> "nextPuzzle", out |-> "puzzle", fen |-> p.FEN, moves |-> Split(p.Moves),
     rating |-> ParseInt(p.Rating), themes |-> Split(p.Themes),
     goalText |-> GetGoalText(p)]

\* Math.floor(Math.random() * chunk.length)
PuzzleIndexes(chunk) == IF Len(chunk.items) = 0 THEN {0} ELSE 0 .. (Len(chunk.items) - 1)

\* chunk[puzzleIndex]
ChunkAt(chunk, puzzleIndex) ==
    IF puzzleIndex \in 0 .. (Len(chunk.items) - 1) THEN chunk.items[puzzleIndex + 1]
    ELSE undefined

\* a getNextPuzzle that drops the current puzzle when it has no chunk (faulty
\* variant of ReturnNext)
ReturnNextClearing(t) ==
    /\ tasks[t].pc = "ret" /\ tasks[t].kind = "next"
    /\ IF ~Truthy(tasks[t].val)
       THEN /\ result' = [op |-> "nextPuzzle", out |-> "null"]
            /\ currentPuzzle' = null
       ELSE \E puzzleIndex \in PuzzleIndexes(tasks[t].val) :
               /\ currentPuzzle' = ChunkAt(tasks[t].val, puzzleIndex)
               /\ result' = IF Truthy(currentPuzzle') THEN PuzzleView(currentPuzzle')
                            ELSE [op |-> "nextPuzzle", out |-> "throw"]
    /\ tasks' = [tasks EXCEPT ![t] = FreeTask]
    /\ UNCHANGED <<puzzleMode, currentStreak, currentScore, solveStartTime,
                   remainingTime, lastUpdateTime, cache, env, zstdInit, calls>>

\* getNextPuzzle after its await: null for no chunk, else a random puzzle of
\* the chunk becomes current; reading .FEN of undefined throws a TypeError
ReturnNext(t) ==
    /\ tasks[t].pc = "ret" /\ tasks[t].kind = "next"
    /\ IF ~Truthy(tasks[t].val)
       THEN /\ result' = [op |-> "nextPuzzle", out |-> "null"]
            /\ UNCHANGED currentPuzzle
       ELSE \E puzzleIndex \in PuzzleIndexes(tasks[t].val) :
               /\ currentPuzzle' = ChunkAt(tasks[t].val, puzzleIndex)
               /\ result' = IF Truthy(currentPuzzle') THEN PuzzleView(currentPuzzle')
                            ELSE [op |-> "nextPuzzle", out |-> "throw"]
    /\ tasks' = [tasks EXCEPT ![t] = FreeTask]
    /\ UNCHANGED <<puzzleMode, currentStreak, currentScore, solveStartTime,
                   remainingTime, lastUpdateTime, cache, env, zstdInit, calls>>

(***************************************************************************)
(* The session: timer, moves, mode, reset                                  *)
(***************************************************************************)
\* the clock advances
AdvanceBy(ms) ==
    /\ now' = now + ms
    /\ UNCHANGED <<session, cache, lastChunk, zstdInit, tasks, result, calls>>

Advance == AdvanceBy(TickMs)

\* startPuzzleTimer
StartPuzzleTimer ==
    /\ solveStartTime' = now
    /\ lastUpdateTime' = IF Falsy(lastUpdateTime) THEN now ELSE lastUpdateTime
    /\ result' = [op |-> "startPuzzleTimer"]
    /\ UNCHANGED <<currentPuzzle, puzzleMode, currentStreak, currentScore, remainingTime,
                   cache, env, zstdInit, tasks, calls>>

\* updateGameTimer
UpdateGameTimer ==
    /\ remainingTime' = Max(0, remainingTime - Elapsed(now, lastUpdateTime))
    /\ lastUpdateTime' = now
    /\ result' = [op |-> "updateGameTimer", ret |-> remainingTime']
    /\ UNCHANGED <<currentPuzzle, puzzleMode, currentStreak, currentScore, solveStartTime,
                   cache, env, zstdInit, tasks, calls>>

\* checkMove
CheckMove(move, moveIndex) ==
    /\ IF ~Truthy(currentPuzzle)
       THEN /\ result' = [op |-> "checkMove", move |-> move, moveIndex |-> moveIndex,
                          value |-> "false"]
            /\ UNCHANGED <<currentStreak, currentScore>>
       ELSE LET solutionMoves == Split(currentPuzzle.Moves)
                isCorrect == StrictEq(move, At(solutionMoves, moveIndex))
            IN  IF isCorrect /\ IsLastMove(moveIndex, solutionMoves)
                THEN LET timeToSolve == now - ToNumber(solveStartTime)
                         score == CalculatePuzzleScore(currentStreak, timeToSolve)
                     IN  /\ currentScore' = currentScore + score
                         /\ currentStreak' = UpdateStreak(currentStreak, TRUE)
                         /\ result' = [op |-> "checkMove", move |-> move,
                                       moveIndex |-> moveIndex, value |-> "object",
                                       correct |-> TRUE, complete |-> TRUE,
                                       score |-> score, timeToSolve |-> timeToSolve,
                                       streakBonus |-> currentStreak',
                                       totalScore |-> currentScore',
                                       remainingTime |-> remainingTime]
                ELSE /\ currentStreak' = IF ~isCorrect THEN UpdateStreak(currentStreak, FALSE)
                                         ELSE currentStreak
                     /\ UNCHANGED currentScore
                     /\ result' = [op |-> "checkMove", move |-> move,
                                   moveIndex |-> moveIndex, value |-> "object",
                                   correct |-> isCorrect, complete |-> FALSE]
    /\ UNCHANGED <<currentPuzzle, puzzleMode, solveStartTime, remainingTime, lastUpdateTime,
                   cache, env, zstdInit, tasks, calls>>

\* a mode change that keeps the streak (faulty variant of SetPuzzleMode)
SetPuzzleModeKeepStreak(mode) ==
    /\ puzzleMode' = mode
    /\ result' = [op |-> "setPuzzleMode"]
    /\ UNCHANGED <<currentPuzzle, currentStreak, currentScore, solveStartTime, remainingTime,
                   lastUpdateTime, cache, env, zstdInit, tasks, calls>>

\* setPuzzleMode
SetPuzzleMode(mode) ==
    /\ puzzleMode' = mode
    /\ currentStreak' = 0
    /\ result' = [op |-> "setPuzzleMode"]
    /\ UNCHANGED <<currentPuzzle, currentScore, solveStartTime, remainingTime,
                   lastUpdateTime, cache, env, zstdInit, tasks, calls>>

\* a reset that also forgets the prefetch markers (faulty variant of ResetGame)
ResetGameClearingMarks ==
    /\ currentScore' = 0
    /\ currentStreak' = 0
    /\ remainingTime' = InitialTime * 1000
    /\ lastUpdateTime' = NoTime
    /\ solveStartTime' = NoTime
    /\ puzzleMode' = "tutorial"
    /\ prefetchedChunks' = {}
    /\ result' = [op |-> "resetGame"]
    /\ UNCHANGED <<currentPuzzle, loadedChunks, insertLog, env, zstdInit, tasks, calls>>

\* resetGame
ResetGame ==
    /\ currentScore' = 0
    /\ currentStreak' = 0
    /\ remainingTime' = InitialTime * 1000
    /\ lastUpdateTime' = NoTime
    /\ solveStartTime' = NoTime
    /\ puzzleMode' = "tutorial"
    /\ result' = [op |-> "resetGame"]
    /\ UNCHANGED <<currentPuzzle, cache, env, zstdInit, tasks, calls>>

\* isGameOver
IsGameOver == remainingTime <= 0

\* getFinalScore
GetFinalScore ==
    [score |-> currentScore, streak |-> currentStreak, puzzlesSolved |-> currentStreak]

(***************************************************************************)
(* Specifications                                                          *)
(***************************************************************************)
\* the moves and indexes the UI submits
SubmittedMoves == {<<"e2e4">>, <<"e7e5">>}
SubmittedIndexes == 0 .. 2

\* The session: the UI makes its calls one at a time, each after the one
\* before has finished; init and nextPuzzle serve puzzles from a small content
\* store, which answers every request (ok or not) before the timeout.
Init == Constructed(SessionLastChunk, SessionTasks)

Next ==
    \/ Idle /\ CallInit(TRUE)
    \/ ZstdReady
    \/ Idle /\ calls < MaxCalls /\ CallNextPuzzle
    \/ \E t \in Slots : InitAwaited(t)
    \/ \E t \in Slots : InitJsonOk(t)
    \/ \E t \in Slots : ReturnInit(t)
    \/ \E t \in Slots : FetchOk(t)
    \/ \E t \in Slots : ~ChunkExists(tasks[t].key) /\ FetchHttpError(t)
    \/ \E t \in Slots : BackoffDone(t)
    \/ \E t \in Slots, chunk \in {ChunkFull, ChunkEmpty} : DecodeOk(t, chunk)
    \/ \E t \in Slots : DecodeFail(t)
    \/ \E t \in Slots : ReturnPrefetch(t)
    \/ \E t \in Slots : ReturnNext(t)
    \/ Idle /\ now < StartNow + MaxClockSteps * TickMs /\ Advance
    \/ Idle /\ StartPuzzleTimer
    \/ Idle /\ UpdateGameTimer
    \/ Idle /\ currentScore < MaxScore
            /\ \E m \in SubmittedMoves, n \in SubmittedIndexes : CheckMove(m, n)
    \/ Idle /\ ResetGame

Spec == Init /\ [][Next]_vars

\* The cache: init, get and prefetch are called at any time, also while
\* earlier calls are pending, against a content store of several chunks.
CalledKeys == {CacheKey("tutorial", 0)}

InitCache == Constructed(CacheLastChunk, CacheTasks)

NextCache ==
    \/ \E z \in BOOLEAN : CallInit(z)
    \/ ZstdReady
    \/ calls < MaxCalls /\ \E k \in CalledKeys : CallGet(k)
    \/ calls < MaxCalls /\ \E k \in CalledKeys : CallPrefetch(k)
    \/ \E t \in Slots : InitAwaited(t)
    \/ \E t \in Slots : InitJsonOk(t)
    \/ \E t \in Slots : InitJsonFail(t)
    \/ \E t \in Slots : ReturnInit(t)
    \/ \E t \in Slots : FetchOk(t)
    \/ \E t \in Slots : ~ChunkExists(tasks[t].key) /\ FetchHttpError(t)
    \/ \E t \in Slots : BackoffDone(t)
    \/ \E t \in Slots : DecodeOk(t, ChunkFull)
    \/ \E t \in Slots : DecodeFail(t)
    \/ \E t \in Slots : ReturnGet(t)
    \/ \E t \in Slots : ReturnPrefetch(t)

SpecCache == InitCache /\ [][NextCache]_vars

\* The progression: a player who never errs solves puzzle after puzzle, the
\* UI asking for the next puzzle at any streak, one call at a time.
CorrectMove(m, n) ==
    /\ Truthy(currentPuzzle)
    /\ StrictEq(m, At(Split(currentPuzzle.Moves), n))

InitProgress == Constructed(SessionLastChunk, SessionTasks)

NextProgress ==
    \/ Idle /\ CallInit(TRUE)
    \/ ZstdReady
    \/ Idle /\ calls < ProgressCalls /\ CallNextPuzzle
    \/ \E t \in Slots : InitAwaited(t)
    \/ \E t \in Slots : InitJsonOk(t)
    \/ \E t \in Slots : ReturnInit(t)
    \/ \E t \in Slots : FetchOk(t)
    \/ \E t \in Slots : ~ChunkExists(tasks[t].key) /\ FetchHttpError(t)
    \/ \E t \in Slots : BackoffDone(t)
    \/ \E t \in Slots : DecodeOk(t, ChunkFull)
    \/ \E t \in Slots : ReturnPrefetch(t)
    \/ \E t \in Slots : ReturnNext(t)
    \/ Idle /\ currentStreak < MaxProgressStreak
            /\ \E m \in SubmittedMoves, n \in SubmittedIndexes :
                  CorrectMove(m, n) /\ CheckMove(m, n)

SpecProgress == InitProgress /\ [][NextProgress]_vars

\* Prefetching in sequence: prefetchChunk is called for one key, each call
\* after every earlier call (and the loads it started) has finished; the
\* content store may fail any request, the codec may be missing.
PrefetchedKey == CacheKey("tutorial", 0)

InitPrefetch == Constructed(SessionLastChunk, SessionTasks)

NextPrefetch ==
    \/ Idle /\ \E z \in BOOLEAN : CallInit(z)
    \/ ZstdReady
    \/ Idle /\ calls < PrefetchCalls /\ CallPrefetch(PrefetchedKey)
    \/ \E t \in Slots : InitAwaited(t)
    \/ \E t \in Slots : InitJsonOk(t)
    \/ \E t \in Slots : InitJsonFail(t)
    \/ \E t \in Slots : ReturnInit(t)
    \/ \E t \in Slots : FetchOk(t)
    \/ \E t \in Slots : FetchHttpError(t)
    \/ \E t \in Slots : BackoffDone(t)
    \/ \E t \in Slots, chunk \in {ChunkFull, ChunkEmpty} : DecodeOk(t, chunk)
    \/ \E t \in Slots : DecodeFail(t)
    \/ \E t \in Slots : ReturnPrefetch(t)

SpecPrefetch == InitPrefetch /\ [][NextPrefetch]_vars

\* The score: a one-move puzzle is current and its timer was started when
\* the manager held some streak; after some time the move is submitted.
InitScore ==
    /\ currentPuzzle = PuzzleB
    /\ puzzleMode = "tutorial"
    /\ currentStreak \in 0 .. ScoreMaxStreak
    /\ loadedChunks = <<>>
    /\ currentScore = 0
    /\ solveStartTime = StartNow
    /\ remainingTime = InitialTime * 1000
    /\ lastUpdateTime = StartNow
    /\ zstdInit = "null"
    /\ prefetchedChunks = {}
    /\ now = StartNow
    /\ lastChunk = SessionLastChunk
    /\ tasks = [t \in 1 .. SessionTasks |-> FreeTask]
    /\ result = [op |-> "startPuzzleTimer"]
    /\ calls = 0
    /\ insertLog = <<>>

NextScore ==
    \/ result.op # "checkMove" /\ now < StartNow + ScoreClockSteps * ScoreTickMs
            /\ AdvanceBy(ScoreTickMs)
    \/ result.op # "checkMove" /\ CheckMove(<<"e7e5">>, 0)

SpecScore == InitScore /\ [][NextScore]_vars

\* The goal text: the current puzzle is any puzzle whose theme list holds up
\* to MaxThemes of the tags below, in any order, for either side to move.
GoalTags ==
    {"mateIn1", "mateIn2", "mateIn3", "fork", "pin", "skewer", "doubleCheck", "middlegame"}

\* tags.join(' ')
RECURSIVE Join(_)
Join(tags) ==
    IF tags = <<>> THEN <<>>
    ELSE IF Len(tags) = 1 THEN <<tags[1]>>
    ELSE <<tags[1], " ">> \o Join(Tail(tags))

TagLists == UNION {[1 .. n -> GoalTags] : n \in 0 .. MaxThemes}

GoalPuzzles ==
    {PuzzleRecord(fen, PuzzleB.Moves, PuzzleB.Rating, Join(tags)) :
        fen \in {PuzzleA.FEN, PuzzleB.FEN}, tags \in TagLists}

InitGoal ==
    /\ currentPuzzle \in GoalPuzzles
    /\ puzzleMode = "tutorial"
    /\ currentStreak = 0
    /\ loadedChunks = <<>>
    /\ currentScore = 0
    /\ solveStartTime = NoTime
    /\ remainingTime = InitialTime * 1000
    /\ lastUpdateTime = NoTime
    /\ zstdInit = "null"
    /\ prefetchedChunks = {}
    /\ now = StartNow
    /\ lastChunk = SessionLastChunk
    /\ tasks = [t \in 1 .. SessionTasks |-> FreeTask]
    /\ result = [op |-> "new"]
    /\ calls = 0
    /\ insertLog = <<>>

NextGoal == result.op = "new" /\ CallGetGoalText

SpecGoal == InitGoal /\ [][NextGoal]_vars

\* The race: once init has returned (its prefetch of tutorial-0 may still be
\* pending), get and prefetch are called for the same chunk at any time, also
\* while other loads are pending; the chunk the store serves may change from
\* one request to the next.
RacedKey == CacheKey("tutorial", 0)

InitRace == Constructed(SessionLastChunk, RaceTasks)

\* init has returned
InitReturned == zstdInit = "resolved" /\ \A t \in Slots : tasks[t].kind # "init"

NextRace ==
    \/ CallInit(TRUE)
    \/ ZstdReady
    \/ InitReturned /\ calls < RaceCalls /\ CallGet(RacedKey)
    \/ InitReturned /\ calls < RaceCalls /\ CallPrefetch(RacedKey)
    \/ \E t \in Slots : InitAwaited(t)
    \/ \E t \in Slots : InitJsonOk(t)
    \/ \E t \in Slots : ReturnInit(t)
    \/ \E t \in Slots : FetchOk(t)
    \/ \E t \in Slots : ~ChunkExists(tasks[t].key) /\ FetchHttpError(t)
    \/ \E t \in Slots : BackoffDone(t)
    \/ \E t \in Slots, chunk \in {ChunkFull, ChunkEmpty} : DecodeOk(t, chunk)
    \/ \E t \in Slots : DecodeFail(t)
    \/ \E t \in Slots : ReturnGet(t)
    \/ \E t \in Slots : ReturnPrefetch(t)

SpecRace == InitRace /\ [][NextRace]_vars

\* The fetcher: chunks are loaded from a server that answers an attempt
\* with a success or an error status, fails it in transport, or never
\* answers it; the timeout may fire at any time while it is armed.  The codec
\* was never initialised, so a fetched chunk fails to decode.
FetchedKey == CacheKey("tutorial", 0)

InitFetch == Constructed(SessionLastChunk, SessionTasks)

NextFetch ==
    \/ calls < FetchCalls /\ CallGet(FetchedKey)
    \/ \E t \in Slots : FetchOk(t)
    \/ \E t \in Slots : FetchHttpError(t)
    \/ \E t \in Slots : FetchNetworkError(t)
    \/ \E t \in Slots : ServerSilent(t)
    \/ \E t \in Slots : TimerFire(t)
    \/ \E t \in Slots : FetchAborted(t)
    \/ \E t \in Slots : BackoffDone(t)
    \/ \E t \in Slots : DecodeFail(t)
    \/ \E t \in Slots : ReturnGet(t)

SpecFetch == InitFetch /\ [][NextFetch]_vars

\* The markers: init prefetches the first tutorial chunk, whose fill chains
\* through a tier of more chunks than the cache holds; between the runs
\* prefetchChunk is called for that first chunk and the game is reset.  The
\* content store may fail any request.
MarkedKey == CacheKey("tutorial", 0)

InitMarks == Constructed(MarksLastChunk, SessionTasks)

NextMarks ==
    \/ Idle /\ CallInit(TRUE)
    \/ ZstdReady
    \/ Idle /\ calls < MarksCalls /\ CallPrefetch(MarkedKey)
    \/ \E t \in Slots : InitAwaited(t)
    \/ \E t \in Slots : InitJsonOk(t)
    \/ \E t \in Slots : ReturnInit(t)
    \/ \E t \in Slots : FetchOk(t)
    \/ \E t \in Slots : FetchHttpError(t)
    \/ \E t \in Slots : BackoffDone(t)
    \/ \E t \in Slots : DecodeOk(t, ChunkFull)
    \/ \E t \in Slots : DecodeFail(t)
    \/ \E t \in Slots : ReturnPrefetch(t)
    \/ Idle /\ ResetGame

SpecMarks == InitMarks /\ [][NextMarks]_vars

\* The prefetch chain: get and prefetch are called for the first chunks of a
\* small tier, one call at a time, with init before, between or after them.
\* The content store answers every request, with the chunk or with an error,
\* and the event loop runs every continuation whose promise has settled.
ChainKeys == {CacheKey("tutorial", k) : k \in 0 .. ChainLastKey}

InitChain == Constructed(ChainLastChunk, SessionTasks)

ChainCall ==
    \/ Idle /\ CallInit(TRUE)
    \/ Idle /\ calls < ChainCalls /\ \E k \in ChainKeys : CallGet(k)
    \/ Idle /\ calls < ChainCalls /\ \E k \in ChainKeys : CallPrefetch(k)

ChainStep ==
    \/ ZstdReady
    \/ \E t \in Slots : InitAwaited(t)
    \/ \E t \in Slots : InitJsonOk(t)
    \/ \E t \in Slots : ReturnInit(t)
    \/ \E t \in Slots : FetchOk(t)
    \/ \E t \in Slots : FetchHttpError(t)
    \/ \E t \in Slots : BackoffDone(t)
    \/ \E t \in Slots : DecodeOk(t, ChunkFull)
    \/ \E t \in Slots : DecodeFail(t)
    \/ \E t \in Slots : ReturnGet(t)
    \/ \E t \in Slots : ReturnPrefetch(t)

NextChain == ChainCall \/ ChainStep

SpecChain == InitChain /\ [][NextChain]_vars /\ WF_vars(ChainStep)

\* The mode: the UI sets the mode to any tier between the other calls of a
\* session in which the player never errs, one call at a time.
InitMode == Constructed(SessionLastChunk, SessionTasks)

NextMode ==
    \/ Idle /\ CallInit(TRUE)
    \/ ZstdReady
    \/ Idle /\ calls < ModeCalls /\ CallNextPuzzle
    \/ \E t \in Slots : InitAwaited(t)
    \/ \E t \in Slots : InitJsonOk(t)
    \/ \E t \in Slots : ReturnInit(t)
    \/ \E t \in Slots : FetchOk(t)
    \/ \E t \in Slots : ~ChunkExists(tasks[t].key) /\ FetchHttpError(t)
    \/ \E t \in Slots : BackoffDone(t)
    \/ \E t \in Slots : DecodeOk(t, ChunkFull)
    \/ \E t \in Slots : ReturnPrefetch(t)
    \/ \E t \in Slots : ReturnNext(t)
    \/ Idle /\ currentStreak < ModeMaxStreak /\ currentScore < ModeMaxScore
            /\ \E m \in SubmittedMoves, n \in SubmittedIndexes :
                  CorrectMove(m, n) /\ CheckMove(m, n)
    \/ Idle /\ \E mode \in MODES : SetPuzzleMode(mode)

SpecMode == InitMode /\ [][NextMode]_vars

\* The unavailable chunk: a session, one call at a time, against a content
\* store that may fail any request; the player submits right and wrong moves.
InitUnavailable == Constructed(SessionLastChunk, SessionTasks)

NextUnavailable ==
    \/ Idle /\ CallInit(TRUE)
    \/ ZstdReady
    \/ Idle /\ calls < UnavailableCalls /\ CallNextPuzzle
    \/ \E t \in Slots : InitAwaited(t)
    \/ \E t \in Slots : InitJsonOk(t)
    \/ \E t \in Slots : ReturnInit(t)
    \/ \E t \in Slots : FetchOk(t)
    \/ \E t \in Slots : FetchHttpError(t)
    \/ \E t \in Slots : BackoffDone(t)
    \/ \E t \in Slots : DecodeOk(t, ChunkFull)
    \/ \E t \in Slots : DecodeFail(t)
    \/ \E t \in Slots : ReturnPrefetch(t)
    \/ \E t \in Slots : ReturnNext(t)
    \/ Idle /\ currentScore < UnavailableMaxScore
            /\ \E m \in SubmittedMoves, n \in SubmittedIndexes : CheckMove(m, n)

SpecUnavailable == InitUnavailable /\ [][NextUnavailable]_vars

(***************************************************************************)
(* Properties                                                              *)
(***************************************************************************)
Tutorial0 == CacheKey("tutorial", 0)

\* position of the latest entry of key k in the insertion history
LastInserted(log, k) ==
    CHOOSE n \in 1 .. Len(log) : log[n] = k /\ \A m \in (n + 1) .. Len(log) : log[m] # k

\* the resident key that entered the cache earliest
EarliestInserted(c, log) ==
    CHOOSE k \in CacheKeys(c) :
        \A j \in CacheKeys(c) : LastInserted(log, k) <= LastInserted(log, j)

\* C1: between operations, whatever the interleaving of init, get and prefetch
\* (nextPuzzle fills the cache through the same get) and whether their loads
\* succeed, the chunk cache holds at most 5 entries (one per key).
C1_CacheAtMostFive ==
    /\ Len(loadedChunks) <= 5
    /\ Cardinality(CacheKeys(loadedChunks)) = Len(loadedChunks)

\* C1 witness: the cache is full and a sixth key has been entered
C1_Witness == Len(loadedChunks) = 5 /\ Len(insertLog) >= 6

C3_NextPuzzleNeverThrows == ~(result.op = "nextPuzzle" /\ result.out = "throw")

\* C4: a load whose miss path fails (fetch after its retries, or decode)
\* returns null, enters nothing into the cache, schedules no prefetch and does
\* not throw.
C4_FailedLoadLeavesCache ==
    /\ [][ \A t \in Slots :
              (tasks[t].kind \in LoadKinds /\ tasks[t].pc \in {"fetch", "decode"}
                 /\ tasks'[t].pc = "ret" /\ tasks'[t].failed)
              => /\ loadedChunks' = loadedChunks
                 /\ insertLog' = insertLog
                 /\ tasks'[t].val = null
                 /\ \A u \in Slots \ {t} : tasks'[u] = tasks[u]
         ]_vars
    /\ [](result.op = "get" /\ result.failed => result.val = null)

\* C4 witness: with the codec ready, a get failed and returned null
C4_Witness ==
    /\ result.op = "get" /\ result.failed /\ result.val = null
    /\ zstdInit = "resolved"

\* the tier and chunk index the progression table gives for streak s
TableTier(s) ==
    IF s < 3 THEN "tutorial"
    ELSE IF s >= 8 /\ (s - 8) % 5 = 4 THEN "spice" ELSE "core-loop"

TableIndexOk(s, n) ==
    IF s < 3 THEN n = 0
    ELSE IF s < 8 THEN 2 * n <= s - 3 /\ s - 3 < 2 * n + 2
    ELSE IF (s - 8) % 5 = 4 THEN 10 * n <= s - 8 /\ s - 8 < 10 * n + 10
    ELSE 5 * n <= s - 8 /\ s - 8 < 5 * n + 5

ExpectedScore(s, ms) ==
    LET m == IF 10 + s < 30 THEN 10 + s ELSE 30
        b == IF 30000 - ms > 15000 THEN 30000 - ms ELSE 15000
    IN  CHOOSE r \in 100 .. 600 :
            (2 * r - 1) * 1500 <= 2 * m * b /\ 2 * m * b < (2 * r + 1) * 1500

\* the solution of the current puzzle, and the cases of a submitted move
Solution == Split(currentPuzzle.Moves)

IsSolutionMove(m, n) == n \in 0 .. (Len(Solution) - 1) /\ Solution[n + 1] = m

IsFinalIndex(n) == n = Len(Solution) - 1

\* C6: the correct move at the last index of the solution returns correct and
\* complete, adds to the running score the puzzle score computed with the
\* streak held before the call, then raises the streak by exactly 1; the
\* returned streak and total are the values after the update.
C6_CompletionScoresThenCounts ==
    [][ \A m \in SubmittedMoves, n \in SubmittedIndexes :
           (CheckMove(m, n) /\ Truthy(currentPuzzle)
              /\ IsSolutionMove(m, n) /\ IsFinalIndex(n))
           => /\ result'.value = "object" /\ result'.correct /\ result'.complete
              /\ result'.score =
                    ExpectedScore(currentStreak, now - ToNumber(solveStartTime))
              /\ currentScore' = currentScore + result'.score
              /\ currentStreak' = currentStreak + 1
              /\ result'.streakBonus = currentStreak'
              /\ result'.totalScore = currentScore'
      ]_vars

\* C6 witness: a second puzzle in a row was completed, for 110 points
C6_Witness ==
    /\ result.op = "checkMove" /\ result.value = "object" /\ result.complete
    /\ result.streakBonus = 2 /\ result.score = 110 /\ result.totalScore = 210

\* C7: a move that differs from the solution move at moveIndex, whatever the
\* index, sets the streak to 0 and returns correct=false, complete=false; the
\* running score, the remaining time and the current puzzle stay as they were.
C7_WrongMoveResetsStreak ==
    [][ \A m \in SubmittedMoves, n \in SubmittedIndexes :
           (CheckMove(m, n) /\ Truthy(currentPuzzle) /\ ~IsSolutionMove(m, n))
           => /\ currentStreak' = 0
              /\ result'.value = "object" /\ ~result'.correct /\ ~result'.complete
              /\ UNCHANGED <<currentScore, remainingTime, currentPuzzle>>
      ]_vars

\* C7 witness: a wrong move past the end of the solution was answered after a
\* puzzle had been completed
C7_Witness ==
    /\ result.op = "checkMove" /\ result.value = "object" /\ ~result.correct
    /\ result.moveIndex = 2 /\ currentScore > 0 /\ currentStreak = 0

\* C8: checkMove changes no session field when no puzzle is active (it
\* returns false) and when the move is correct but not the final move of the
\* solution (it returns correct=true, complete=false).
C8_NoChangeWithoutPuzzleOrMidway ==
    [][ \A m \in SubmittedMoves, n \in SubmittedIndexes :
           /\ (CheckMove(m, n) /\ ~Truthy(currentPuzzle))
              => /\ result'.value = "false"
                 /\ UNCHANGED session
           /\ (CheckMove(m, n) /\ Truthy(currentPuzzle)
                 /\ IsSolutionMove(m, n) /\ ~IsFinalIndex(n))
              => /\ result'.value = "object" /\ result'.correct /\ ~result'.complete
                 /\ UNCHANGED session
      ]_vars

\* C8 witness: the first move of a two-move solution was answered correct and
\* not complete while a streak and a score were held
C8_Witness ==
    /\ result.op = "checkMove" /\ result.value = "object"
    /\ result.correct /\ ~result.complete
    /\ currentStreak > 0 /\ currentScore > 0

\* C9: once the remaining time is 0, no checkMove changes the score or the
\* streak until resetGame is called.
C9_GameOverIsTerminal ==
    [][ \A m \in SubmittedMoves, n \in SubmittedIndexes :
           (IsGameOver /\ CheckMove(m, n)) => UNCHANGED <<currentScore, currentStreak>>
      ]_vars

\* C10: every tick, the first one after construction or reset included, lowers
\* the remaining time by the time elapsed since the previous tick or since the
\* tick clock was initialised (so by no more than the time since the manager
\* was constructed), not below 0, and sets the tick clock to now; the remaining
\* time stays within 0 .. 60 s.
C10_TickSubtractsElapsed ==
    [][ UpdateGameTimer
        => /\ IF lastUpdateTime # NoTime
              THEN remainingTime' = Max(0, remainingTime - (now - lastUpdateTime))
              ELSE remainingTime' >= Max(0, remainingTime - (now - StartNow))
           /\ lastUpdateTime' = now
           /\ remainingTime' \in 0 .. 60000
      ]_vars

\* C11: after resetGame, from any state, every session field has the value a
\* freshly constructed manager gives it: mode tutorial, streak 0, score 0,
\* 60 s remaining, both timer anchors null and no current puzzle.
C11_ResetRestoresFreshSession ==
    [][ ResetGame
        => /\ puzzleMode' = "tutorial" /\ currentStreak' = 0 /\ currentScore' = 0
           /\ remainingTime' = InitialTime * 1000
           /\ lastUpdateTime' = NoTime /\ solveStartTime' = NoTime
           /\ currentPuzzle' = null
      ]_vars

\* C13: the streak counts each served puzzle at most once, so it (and the
\* puzzlesSolved that getFinalScore reports) never exceeds the number of
\* nextPuzzle calls made.
C13_StreakAtMostPuzzlesServed ==
    /\ GetFinalScore.puzzlesSolved = currentStreak
    /\ currentStreak <= calls

\* C20: startPuzzleTimer sets the solve-start time to now and leaves the
\* remaining time alone; when it was already called since construction or the
\* last reset (the solve-start time is set), it leaves the tick clock alone.
C20_TickClockInitialisedOnce ==
    [][ StartPuzzleTimer
        => /\ solveStartTime' = now
           /\ remainingTime' = remainingTime
           /\ (solveStartTime # NoTime => lastUpdateTime' = lastUpdateTime)
      ]_vars

\* C20 witness: a later startPuzzleTimer call moved the solve-start time past
\* the tick clock, which it left where the first call had put it
C20_Witness ==
    /\ result.op = "startPuzzleTimer"
    /\ lastUpdateTime = StartNow /\ solveStartTime > lastUpdateTime
    /\ remainingTime = InitialTime * 1000

\* C12: once a prefetchChunk call for a key has finished, the key is marked,
\* whether its load succeeded or failed, and a later prefetchChunk call for
\* the key starts no load and changes nothing: the two calls make at most one
\* fill attempt.
C12_SecondPrefetchIsNoOp ==
    /\ []((calls >= 1 /\ Idle) => PrefetchedKey \in prefetchedChunks)
    /\ [][ (calls >= 1 /\ Idle /\ calls' = calls + 1)
            => /\ tasks' = tasks
               /\ UNCHANGED <<session, cache, zstdInit>>
          ]_vars

\* C12 witness: init failed after the codec was ready (so it prefetched
\* nothing), the first call's load failed, the key is marked and not cached,
\* and the second call has been made
C12_Witness ==
    /\ calls = 2 /\ Idle /\ zstdInit = "resolved"
    /\ result = [op |-> "init", ret |-> FALSE]
    /\ PrefetchedKey \in prefetchedChunks
    /\ ~CacheHas(loadedChunks, PrefetchedKey)

\* C14: for every streak s >= 0 and solve time t >= 0 the puzzle score is
\* round(100 * min(3, 1 + 0.1*s) * max(1, 2 - t/15)), which lies in 100 .. 600;
\* streak 0 at 15 s gives 100, streak 10 at 0 s gives 400, and from streak 20
\* on the score is the one of streak 20 (multiplier 3).
C14_ScoreFormula ==
    (result.op = "checkMove" /\ result.value = "object" /\ result.complete)
    => LET s == result.streakBonus - 1
           ms == result.timeToSolve
       IN  /\ result.score = ExpectedScore(s, ms)
           /\ result.score \in 100 .. 600
           /\ (s = 0 /\ ms = 15000 => result.score = 100)
           /\ (s = 10 /\ ms = 0 => result.score = 400)
           /\ (s >= 20 => result.score = ExpectedScore(20, ms))

\* C14 witness: a puzzle solved at once at streak 30 scored 600
C14_Witness ==
    /\ result.op = "checkMove" /\ result.value = "object" /\ result.complete
    /\ result.streakBonus = 31 /\ result.timeToSolve = 0 /\ result.score = 600

\* the goal the fixed priority gives for a set of theme tags
PriorityGoal(tagset) ==
    IF "mateIn1" \in tagset THEN <<"Mate in", "1">>
    ELSE IF "mateIn2" \in tagset THEN <<"Mate in", "2">>
    ELSE IF "mateIn3" \in tagset THEN <<"Mate in", "3">>
    ELSE IF "fork" \in tagset THEN <<"Find the", "fork">>
    ELSE IF "pin" \in tagset THEN <<"Find the", "pin">>
    ELSE IF "skewer" \in tagset THEN <<"Find the", "skewer">>
    ELSE IF "doubleCheck" \in tagset THEN <<"Find the", "doubleCheck">>
    ELSE <<"Find the", "best tactic">>

\* the tags of the current puzzle's theme list, and its side to move
CurrentTags == {w[1] : w \in {Split(currentPuzzle.Themes)[n] :
                                 n \in 1 .. Len(Split(currentPuzzle.Themes))} \ {<<>>}}

WhiteToMove == \E k \in 1 .. (Len(currentPuzzle.FEN) - 2) :
                  /\ currentPuzzle.FEN[k] = " " /\ currentPuzzle.FEN[k + 1] = "w"
                  /\ currentPuzzle.FEN[k + 2] = " "

\* C15: whatever the order of the tags in the theme list, the goal text names
\* mateIn1, else mateIn2, else mateIn3, else the first of fork, pin, skewer,
\* doubleCheck (in that order) the themes hold, else the best tactic; the
\* side is White iff the FEN contains " w ".
C15_GoalByFixedPriority ==
    result.op = "getGoalText"
    => /\ result.text.goal = PriorityGoal(CurrentTags)
       /\ result.text.side = (IF WhiteToMove THEN "White" ELSE "Black")

\* a load that prefetchChunk started is fetching or decoding
PrefetchFillInFlight(t) ==
    tasks[t].kind = "prefetch" /\ tasks[t].pc \in {"fetch", "backoff", "decode"}

\* C16: in no interleaving are two prefetch fills of the same key in flight
\* at the same time.
C16_NoDuplicatePrefetchInFlight ==
    \A t, u \in Slots :
        (t # u /\ PrefetchFillInFlight(t) /\ PrefetchFillInFlight(u))
        => tasks[t].key # tasks[u].key

\* task t completes a fill (fetch and decode) successfully in this step
FillCompletes(t) ==
    /\ tasks[t].kind \in LoadKinds /\ tasks[t].pc = "decode"
    /\ tasks'[t].pc = "ret" /\ ~tasks'[t].failed

\* the entries the cache holds for key k
EntriesOf(c, k) == {n \in 1 .. Len(c) : c[n].key = k}

\* C17: overlapping loads of the same missing key may each fetch and decode;
\* every fill that completes leaves exactly one cache entry for the key,
\* holding the value that fill decoded, and nothing but a completing fill
\* changes a resident value: after two fills the value is the one of the fill
\* that finished last.
C17_LastWriteWins ==
    /\ [][ \A t \in Slots :
              FillCompletes(t)
              => /\ Cardinality(EntriesOf(loadedChunks', tasks[t].key)) = 1
                 /\ CacheGet(loadedChunks', tasks[t].key) = tasks'[t].val
         ]_vars
    /\ [][ \A k \in CacheKeys(loadedChunks) \cap CacheKeys(loadedChunks') :
              CacheGet(loadedChunks', k) # CacheGet(loadedChunks, k)
              => \E t \in Slots : FillCompletes(t) /\ tasks[t].key = k
         ]_vars

\* C17 witness: a get and a prefetch of tutorial-0 both fetched and decoded;
\* the get returned the chunk it decoded, and the cache holds the different
\* chunk the prefetch, finishing later, decoded
C17_Witness ==
    /\ result.op = "get" /\ result.key = RacedKey /\ ~result.hit /\ ~result.failed
    /\ RacedKey \in prefetchedChunks
    /\ Cardinality(EntriesOf(loadedChunks, RacedKey)) = 1
    /\ CacheGet(loadedChunks, RacedKey) # result.val

\* C18: every call of the fetcher eventually returns or fails, because an
\* attempt the server never answers, the first or a retry, is cancelled by
\* the timeout: whenever such an attempt is in flight the timeout is still
\* armed or has fired (else nothing ever ends the attempt).
C18_SilentAttemptIsCancelled ==
    \A t \in Slots : tasks[t].pc = "silent" => tasks[t].timer \in {"armed", "fired"}

\* the wait the claim gives after failed attempt i
ClaimedWait(i) == IF i = 0 THEN 1000 ELSE IF i = 1 THEN 2000 ELSE 4000 * 2 ^ (i - 2)

\* an attempt of task t is in flight
Attempting(t) == tasks[t].pc \in {"fetch", "silent"}

\* C19: the fetcher makes at most `retries` attempts (numbered 0 .. retries-1)
\* and none after a success; a failed attempt i before the last is followed
\* by a wait of 1000 * 2^i ms and then attempt i + 1; the failure of the last
\* attempt is followed by no wait and is the error the fetcher throws.
C19_RetriesWithBackoff ==
    /\ [](\A t \in Slots : tasks[t].i \in 0 .. (Retries - 1))
    /\ [][ \A t \in Slots :
              /\ (Attempting(t) /\ tasks'[t].pc \notin {"fetch", "silent", "decode"})
                 => IF tasks[t].i < Retries - 1
                    THEN /\ tasks'[t].pc = "backoff"
                         /\ tasks'[t].wait = ClaimedWait(tasks[t].i)
                         /\ tasks'[t].i = tasks[t].i
                    ELSE /\ tasks'[t].pc = "ret" /\ tasks'[t].failed
                         /\ tasks'[t].wait = 0
                         /\ tasks'[t].err[1] \in {"http", "network", "abort"}
                         /\ tasks'[t].err[2] = Retries - 1
              /\ (tasks[t].pc = "backoff" /\ tasks'[t].pc # "backoff")
                 => tasks'[t].pc = "fetch" /\ tasks'[t].i = tasks[t].i + 1
              /\ (tasks[t].pc = "decode") => ~Attempting(t)' /\ tasks'[t].pc # "backoff"
              /\ (~Attempting(t) /\ Attempting(t)')
                 => tasks[t].pc \in {"free", "backoff"}
         ]_vars

\* C19 witness: after an error status and a wait of 2000 ms the third attempt
\* failed in transport, and the load failed with that error
C19_Witness ==
    \E t \in Slots :
        /\ tasks[t].pc = "ret" /\ tasks[t].failed /\ tasks[t].kind = "get"
        /\ tasks[t].err = Error("network", Retries - 1)

\* C21: the prefetch markers only grow, whatever is called (reset included),
\* and a prefetch of a marked key does nothing: it starts no load and leaves
\* the cache and the markers alone, also when the key's chunk is no longer
\* cached (evicted, or never filled because its load failed).
C21_MarkersOnlyGrow ==
    /\ [][prefetchedChunks \subseteq prefetchedChunks']_vars
    /\ [][(calls' # calls /\ MarkedKey \in prefetchedChunks)
            => UNCHANGED <<tasks, cache, session>>]_vars

\* C21 witness: the first chunk was filled, marked and later evicted by the
\* chain; prefetchChunk was then called for it and the game was reset
C21_Witness ==
    /\ MarkedKey \in prefetchedChunks
    /\ ~CacheHas(loadedChunks, MarkedKey)
    /\ \E n \in DOMAIN insertLog : insertLog[n] = MarkedKey
    /\ calls = 1 /\ Idle
    /\ result.op = "resetGame"

\* this step is the successful fill of a missing chunk by task t
FilledBy(t) ==
    /\ tasks[t].pc = "decode" /\ tasks[t].kind \in LoadKinds
    /\ tasks'[t].pc = "ret" /\ ~tasks'[t].failed

\* this step starts a prefetch in slot u
StartedPrefetch(u) == tasks[u].pc = "free" /\ tasks'[u].kind = "prefetch"

\* this step is init calling prefetchChunk for the first tutorial chunk
InitPrefetches(u) ==
    /\ tasks'[u].key = CacheKey("tutorial", 0)
    /\ \E t \in Slots : /\ tasks[t].kind = "init" /\ tasks[t].pc = "decode"
                         /\ tasks'[t].pc = "ret" /\ ~tasks'[t].failed

\* C22: a successful fill (of a get or of a prefetch) schedules the prefetch
\* of the following index unless that index is marked; a prefetch is only
\* ever started by a call, by init or by the successful fill of the index
\* before it, never for a marked index, and a prefetch of a cached index
\* returns the cached chunk without filling, so a run stops at the first
\* index that is cached, marked or fails to load; and every run ends: calls
\* that are pending are eventually all finished.
C22_PrefetchChainStops ==
    /\ [][\A t \in Slots :
             FilledBy(t) =>
                 \/ NextKey(tasks[t].key) \in prefetchedChunks
                 \/ \E u \in Slots : /\ StartedPrefetch(u)
                                      /\ tasks'[u].key = NextKey(tasks[t].key)]_vars
    /\ [][\A u \in Slots :
             StartedPrefetch(u) =>
                 /\ tasks'[u].key \notin prefetchedChunks
                 /\ \/ calls' # calls
                    \/ InitPrefetches(u)
                    \/ \E t \in Slots : FilledBy(t) /\ tasks'[u].key = NextKey(tasks[t].key)
                 /\ CacheHas(loadedChunks', tasks'[u].key)
                        => tasks'[u].pc = "ret" /\ tasks'[u].hit]_vars
    /\ (~Idle ~> Idle)

\* C22 witness: the second chunk was got first (its run went on to the end of
\* the tier), then the first chunk was got: its run stopped at the second
\* index, cached already, which the prefetch only marked
C22_Witness ==
    /\ Idle /\ calls = 2
    /\ result.op = "get" /\ result.key = CacheKey("tutorial", 0)
    /\ ~result.failed /\ ~result.hit
    /\ insertLog = <<CacheKey("tutorial", 1), CacheKey("tutorial", 2), CacheKey("tutorial", 0)>>
    /\ CacheKey("tutorial", 1) \in prefetchedChunks

NextPuzzlePending == \E t \in Slots : tasks[t].kind = "next" \/ tasks'[t].kind = "next"

\* this step is getNextPuzzle returning, its chunk being null
ReturnsNull(t) ==
    /\ tasks[t].kind = "next" /\ tasks[t].pc = "ret" /\ ~Truthy(tasks[t].val)
    /\ tasks'[t].pc = "free"

\* C24: a nextPuzzle that gets no chunk returns null, and from its call to
\* its return the current puzzle, the streak, the score and the remaining
\* time stay as they were (the mode alone is set); a move submitted after the
\* null is judged against the puzzle that was current before the call.
C24_NullKeepsOldPuzzle ==
    /\ [][\A t \in Slots :
             ReturnsNull(t) =>
                 /\ result' = [op |-> "nextPuzzle", out |-> "null"]
                 /\ UNCHANGED <<currentPuzzle, currentStreak, currentScore, remainingTime>>]_vars
    /\ [][(NextPuzzlePending /\ ~(result' # result /\ result'.op = "nextPuzzle"))
             => UNCHANGED <<currentPuzzle, currentStreak, currentScore, remainingTime>>]_vars
    /\ [][\A m \in SubmittedMoves, n \in SubmittedIndexes :
             (/\ CheckMove(m, n)
              /\ result = [op |-> "nextPuzzle", out |-> "null"]
              /\ Truthy(currentPuzzle))
                 => /\ result'.value = "object"
                    /\ result'.correct = IsSolutionMove(m, n)]_vars

\* C24 witness: a tutorial puzzle was served and solved until the streak
\* reached the next tier, whose chunk the store failed: nextPuzzle returned
\* null and the tutorial puzzle is still current
C24_Witness ==
    /\ result = [op |-> "nextPuzzle", out |-> "null"]
    /\ Truthy(currentPuzzle)
    /\ puzzleMode = "core-loop" /\ currentStreak >= 3 /\ currentScore > 0
    /\ Idle

====
